---- MODULE Spec2Model ----
(***************************************************************************)
(* Model of the orchestration kernel of universal-copilot-platform:        *)
(*   - llm/gateway.py        policy resolution, provider registry,         *)
(*                           generate() with its call-log writes           *)
(*   - llm/providers/*.py    the four provider adapters                    *)
(*   - rag/indexes.py        index_name                                    *)
(*   - rag/vector_client.py  the vector engine client                      *)
(*   - crew/*.py             the support flow and the two agent tools      *)
(* Python strings that are only compared are TLA+ strings; the strings     *)
(* index_name concatenates are sequences of one-character strings.         *)
(***************************************************************************)
EXTENDS Integers, Sequences, FiniteSets, TLC

\* ------------------------------------------------------------------ bounds
\* Number of generate() calls of one process, running concurrently.
NCalls == 2
\* Longest tenant_id / use_case / source given to index_name, in characters.
MaxLen == 2
\* Longest streamed response body, in fragments.
MaxFragments == 1
\* The same where the consumer's behaviour is explored.
MaxStreamFragments == 2
\* Number of resolve calls recorded per (tenant, use_case).
MaxResolves == 2
\* Number of times a consumer iterates a stream again after it has ended.
MaxReadsAfterEnd == 1
\* Number of direct tool uses recorded.
MaxToolCalls == 2

Calls == 1..NCalls

\* ------------------------------------------------------------ input domains
Tenants == {"tenant_a", "tenant_b"}
UseCases == {"support", "hr"}
Pairs == Tenants \X UseCases

\* Python's None where the other values are strings.
None == "None"
\* Python's None where the other values are records.
Nothing == [type |-> "none"]

\* ----------------------------------------------------------- configuration
VARIABLES
    settings,            \* the cached Settings object (settings.get_settings)
    tenant_configs       \* rows of the tenant_use_case_configs table

CredentialNames ==
    {"openai_api_key", "anthropic_api_key", "watsonx_api_key", "watsonx_project_id"}

\* Which secrets the process was started with: none, all, or only one of the
\* two watsonx needs.
CredentialSets ==
    {{}, CredentialNames, {"watsonx_api_key"}, {"watsonx_project_id"}}

\* Values of the attribute llm_default_provider; Settings declares no such
\* field, so getattr yields None unless a deployment or a test supplies one.
DefaultProviders == {None, "", "openai", "anthropic", "watsonx", "ollama", "mistral"}
DefaultModels == {None, "llama3"}

\* llm_policy of a TenantUseCaseConfig row: a JSON object, {} by default.
Policies ==
    { [provider |-> "openai", model |-> "gpt-4.1-mini"],
      [provider |-> "ollama", model |-> "llama3"],
      [max_tokens |-> "2048"] }

\* The rows scripts/init_dev_data.py seeds, restricted to the modelled pairs.
DevSeed ==
    [p \in {<<"tenant_a", "support">>, <<"tenant_a", "hr">>} |->
        [provider |-> "openai", model |-> "gpt-4.1-mini"]]

\* Contents of the configuration store: empty, the dev seed, or one override.
Stores ==
    {<<>>, DevSeed} \cup
    { [p \in {q} |-> pol] : q \in Pairs, pol \in Policies }

HasOverride(t, u) ==
    /\ <<t, u>> \in DOMAIN tenant_configs
    /\ "provider" \in DOMAIN tenant_configs[<<t, u>>]
    /\ "model" \in DOMAIN tenant_configs[<<t, u>>]

\* `x or default` of Python: None and the empty string are falsy.
OrElse(x, default) == IF x = None \/ x = "" THEN default ELSE x

\* Mutant: the `or` fallbacks to the baseline are dropped.
resolve_provider_spec_NoBaseline(tenant_id, use_case) ==
    [name  |-> settings.llm_default_provider,
     model |-> settings.llm_default_model]

resolve_provider_spec(tenant_id, use_case) ==
    [name  |-> OrElse(settings.llm_default_provider, "openai"),
     model |-> OrElse(settings.llm_default_model, "gpt-4.1-mini")]

\* ---------------------------------------------------------------- registry
ProviderNames == {"openai", "anthropic", "watsonx", "ollama"}

\* The class attributes each adapter declares.
supports_tools == [openai |-> TRUE, anthropic |-> TRUE, watsonx |-> FALSE, ollama |-> FALSE]
supports_streaming == [openai |-> TRUE, anthropic |-> TRUE, watsonx |-> FALSE, ollama |-> TRUE]

\* _init_providers: one new adapter object per vendor name. instance tells
\* the objects of one run of _init_providers from those of another.
_init_providers(build) ==
    [n \in ProviderNames |->
        [name |-> n, supports_tools |-> supports_tools[n],
         supports_streaming |-> supports_streaming[n], instance |-> build]]

\* How often _init_providers had run when the registry was built.
Builds(registry) == IF registry = Nothing THEN 0 ELSE registry["openai"].instance

\* Mutant: an unknown name falls back to the openai adapter.
RegistryGet_Fallback(providers, name) ==
    IF name \in DOMAIN providers THEN providers[name] ELSE providers["openai"]

\* dict.get: the adapter registered under the name, or None.
RegistryGet(providers, name) ==
    IF name \in DOMAIN providers THEN providers[name] ELSE Nothing

\* -------------------------------------------------------------- index names
Alphabet == {"a", "_"}

RECURSIVE SeqsUpTo(_)
SeqsUpTo(n) ==
    IF n = 0 THEN {<<>>}
    ELSE LET shorter == SeqsUpTo(n - 1)
         IN shorter \cup { Append(s, ch) : s \in shorter, ch \in Alphabet }

\* Identifiers are non-empty.
Strings == SeqsUpTo(MaxLen) \ {<<>>}

Sep == <<"_", "_">>

\* Mutant: the source is left out of the name.
index_name_NoSource(tenant_id, use_case, source) ==
    tenant_id \o Sep \o use_case

index_name(tenant_id, use_case, source) ==
    tenant_id \o Sep \o use_case \o Sep \o source

\* ------------------------------------------------------------ gateway state
VARIABLES
    _PROVIDER_REGISTRY,  \* gateway.py module global: Nothing until first use
    adapter_calls,       \* per adapter, how often its generate was invoked
    call_log,            \* rows committed to llm_call_logs, in commit order
    pc,                  \* per call, where generate() is suspended
    req,                 \* per call, the arguments of generate()
    spec,                \* per call, the ProviderSpec resolved for it
    adapter_out,         \* per call, what provider.generate returned or raised
    caught,              \* per call, `exc` bound by generate's except clause
    outcome,             \* per call, what generate() returned or raised
    http_requests,       \* per call, requests sent to the upstream vendor
    upstream_log,        \* per call, who sent each request and what came back
    log_attempts,        \* per call, the outcome of each commit it attempted
    stream               \* per call, the async generator handed to the caller

\* -------------------------------------------------------------- exceptions
Exc(kind, msg) == [kind |-> kind, msg |-> msg]

UnknownProvider(name) == Exc("ValueError", "Unknown provider '" \o name \o "'")

\* What a failing session.commit() raises out of _log_llm_call.
LogWriteFailure == Exc("OperationalError", "commit failed")

ConnectError == Exc("ConnectError", "connection failed")

Statuses == {200, 404, 500}

StatusText(status) ==
    CASE status = 404 -> "Client error '404 Not Found'"
      [] status = 500 -> "Server error '500 Internal Server Error'"
      [] OTHER -> "unexpected status"

\* What the upstream vendor does with one request.
UpstreamReplies ==
    { [kind |-> "response", status |-> s] : s \in Statuses } \cup
    { [kind |-> "network_error", status |-> 0] }

\* httpx.Response.raise_for_status: the error it raises, or Nothing.
raise_for_status(status) ==
    IF status >= 200 /\ status < 300 THEN Nothing
    ELSE Exc("HTTPStatusError", StatusText(status))

\* ---------------------------------------------------------------- adapters
\* Each adapter's generate runs without suspending up to its first await
\* (XxxBegin), and resumes when the upstream has answered (XxxResume).
\* A step is: raise exc | post (send one request and await the reply) |
\* return value.
Raise(exc) == [do |-> "raise", exc |-> exc]
Post == [do |-> "post"]
Return(value) == [do |-> "return", value |-> value]

\* resp.json() of the reply to call c's request.
Response(c, status) == [type |-> "response", call |-> c, status |-> status]
\* The async generator object _iter_stream() made for call c.
StreamObject(c) == [type |-> "stream", call |-> c]

OpenAIBegin(c, stream_flag) ==
    IF "openai_api_key" \notin settings.credentials
    THEN Raise(Exc("RuntimeError", "OpenAI API key not configured"))
    ELSE Post

\* Mutant: a failed request is sent again instead of raising.
OpenAIResume_RetriesOnFailure(c, stream_flag, reply) ==
    IF reply.kind = "network_error" THEN Post
    ELSE IF raise_for_status(reply.status) # Nothing
         THEN Post
         ELSE IF stream_flag THEN Return(StreamObject(c))
              ELSE Return(Response(c, reply.status))

OpenAIResume(c, stream_flag, reply) ==
    IF reply.kind = "network_error" THEN Raise(ConnectError)
    ELSE IF raise_for_status(reply.status) # Nothing
         THEN Raise(raise_for_status(reply.status))
         ELSE IF stream_flag THEN Return(StreamObject(c))
              ELSE Return(Response(c, reply.status))

AnthropicBegin(c, stream_flag) ==
    IF "anthropic_api_key" \notin settings.credentials
    THEN Raise(Exc("RuntimeError", "Anthropic API key not configured"))
    ELSE Post

\* Mutant: the stream flag is ignored; the response is always materialized.
AnthropicResume_NeverStreams(c, stream_flag, reply) ==
    IF reply.kind = "network_error" THEN Raise(ConnectError)
    ELSE IF raise_for_status(reply.status) # Nothing
         THEN Raise(raise_for_status(reply.status))
         ELSE Return(Response(c, reply.status))

AnthropicResume(c, stream_flag, reply) ==
    IF reply.kind = "network_error" THEN Raise(ConnectError)
    ELSE IF raise_for_status(reply.status) # Nothing
         THEN Raise(raise_for_status(reply.status))
         ELSE IF stream_flag THEN Return(StreamObject(c))
              ELSE Return(Response(c, reply.status))

\* Mutant: only the API key is checked, not the project id.
WatsonxBegin_KeyOnly(c, stream_flag) ==
    IF "watsonx_api_key" \notin settings.credentials
    THEN Raise(Exc("RuntimeError", "watsonx.ai credentials not fully configured"))
    ELSE Post

WatsonxBegin(c, stream_flag) ==
    IF \/ "watsonx_api_key" \notin settings.credentials
       \/ "watsonx_project_id" \notin settings.credentials
    THEN Raise(Exc("RuntimeError", "watsonx.ai credentials not fully configured"))
    ELSE Post

WatsonxResume(c, stream_flag, reply) ==
    IF reply.kind = "network_error" THEN Raise(ConnectError)
    ELSE IF raise_for_status(reply.status) # Nothing
         THEN Raise(raise_for_status(reply.status))
         ELSE Return(Response(c, reply.status))

OllamaBegin(c, stream_flag) ==
    IF stream_flag THEN Return(StreamObject(c)) ELSE Post

OllamaResume(c, stream_flag, reply) ==
    IF reply.kind = "network_error" THEN Raise(ConnectError)
    ELSE IF raise_for_status(reply.status) # Nothing
         THEN Raise(raise_for_status(reply.status))
         ELSE Return(Response(c, reply.status))

\* provider.generate(...) dispatched on the adapter instance.
ProviderBegin(provider, c, stream_flag) ==
    CASE provider.name = "openai" -> OpenAIBegin(c, stream_flag)
      [] provider.name = "anthropic" -> AnthropicBegin(c, stream_flag)
      [] provider.name = "watsonx" -> WatsonxBegin(c, stream_flag)
      [] provider.name = "ollama" -> OllamaBegin(c, stream_flag)

ProviderResume(provider, c, stream_flag, reply) ==
    CASE provider.name = "openai" -> OpenAIResume(c, stream_flag, reply)
      [] provider.name = "anthropic" -> AnthropicResume(c, stream_flag, reply)
      [] provider.name = "watsonx" -> WatsonxResume(c, stream_flag, reply)
      [] provider.name = "ollama" -> OllamaResume(c, stream_flag, reply)

\* The messages a direct client of the gateway passes to generate().
ClientMessages ==
    << [role |-> "system", content |-> "be brief"],
       [role |-> "user", content |-> "hello"] >>

\* Message lists a caller may pass: empty, two messages in either order,
\* a repeated content, and a message that has no "content" key between two
\* that have one.
MessageLists ==
    { <<>>,
      ClientMessages,
      << [role |-> "user", content |-> "hello"],
         [role |-> "system", content |-> "be brief"] >>,
      << [role |-> "user", content |-> "hello"],
         [role |-> "assistant", tool_calls |-> "lookup"],
         [role |-> "user", content |-> "hello"] >>,
      << [role |-> "user", content |-> "first"],
         [role |-> "assistant", tool_calls |-> "lookup"],
         [role |-> "user", content |-> "second"] >> }

\* Mutant: the prompt is built from the newest message backwards.
WatsonxPrompt_NewestFirst(messages) ==
    LET with_content == SelectSeq(messages, LAMBDA m : "content" \in DOMAIN m)
        n == Len(with_content)
    IN [i \in 1..n |-> with_content[n + 1 - i].content]

\* "\n".join(m["content"] for m in messages if "content" in m): the contents
\* the prompt is made of, in the order join concatenates them.
WatsonxPrompt(messages) ==
    LET with_content == SelectSeq(messages, LAMBDA m : "content" \in DOMAIN m)
    IN [i \in DOMAIN with_content |-> with_content[i].content]

\* The JSON body an adapter sends to its vendor, with every request it makes
\* for one call.
ProviderPayload(name, model, messages, stream_flag) ==
    IF name = "watsonx"
    THEN [model_id |-> model, input |-> WatsonxPrompt(messages),
          project_id |-> "watsonx_project_id"]
    ELSE [model |-> model, messages |-> messages, stream |-> stream_flag]

\* _iter_stream up to its first yield: `async with client.stream(...)` sends a
\* request of its own and enters the body on any response, whatever its status.
IterStreamOpen(name, reply) ==
    IF reply.kind = "network_error" THEN Raise(ConnectError)
    ELSE Return(reply.status)

\* ----------------------------------------------------------------- call log
\* Mutant: the status argument is not passed on; every row says "success".
LLMCallLog_StatusIgnored(tenant_id, use_case, provider_name, model_name, status, error_type, error_message) ==
    [tenant_id |-> tenant_id, use_case_id |-> use_case,
     provider_name |-> provider_name, model_name |-> model_name,
     tokens_input |-> 0, tokens_output |-> 0, latency_ms |-> 0,
     status |-> "success", error_type |-> error_type, error_message |-> error_message]

\* The LLMCallLog row _log_llm_call builds from its keyword arguments.
LLMCallLog(tenant_id, use_case, provider_name, model_name, status, error_type, error_message) ==
    [tenant_id |-> tenant_id, use_case_id |-> use_case,
     provider_name |-> provider_name, model_name |-> model_name,
     tokens_input |-> 0, tokens_output |-> 0, latency_ms |-> 0,
     status |-> status, error_type |-> error_type, error_message |-> error_message]

\* _log_llm_call: the table after the write; a commit that fails adds no row.
\* `by` records which call wrote the row (the table itself has no such column).
_log_llm_call(log, by, row, commit_ok) ==
    IF commit_ok THEN Append(log, [by |-> by, row |-> row]) ELSE log

\* Mutant: the registry is built anew by every call.
get_provider_registry_Rebuilds == _init_providers(Builds(_PROVIDER_REGISTRY) + 1)

\* get_provider_registry: builds the registry on first use, then reuses it.
get_provider_registry ==
    IF _PROVIDER_REGISTRY = Nothing
    THEN _init_providers(Builds(_PROVIDER_REGISTRY) + 1)
    ELSE _PROVIDER_REGISTRY

\* ------------------------------------------------------- other components
VARIABLES
    resolved,            \* per (tenant, use_case), what each resolve call returned
    ixFirst, ixSecond,   \* the last two index_name calls: arguments and result
    flow,                \* per support flow run, its position and its data
    vector_indexes,      \* the vector engine: the provisioned indexes and their documents
    vector_queries,      \* the calls of VectorClient.query, in order
    tool_calls           \* the agent's direct uses of a tool, with their outcomes

config_vars == <<settings, tenant_configs>>
gateway_vars ==
    <<_PROVIDER_REGISTRY, adapter_calls, call_log, pc, req, spec, adapter_out,
      caught, outcome, http_requests, upstream_log, log_attempts, stream>>
crew_vars == <<flow, vector_indexes, vector_queries, tool_calls>>
other_vars == <<resolved, ixFirst, ixSecond, crew_vars>>
vars == <<config_vars, gateway_vars, other_vars>>

\* phase: none (no generator) | unstarted | open | abandoned (suspended at its
\* yield, no longer iterated) | closed (body exhausted) | failed | cancelled |
\* finalized (closed by aclose()).
NoStream ==
    [phase |-> "none", status |-> 0, length |-> 0, delivered |-> <<>>,
     reads_after_end |-> 0]
NoRequest ==
    [tenant_id |-> None, use_case |-> None, messages |-> <<>>, stream |-> FALSE]

InitGateway ==
    /\ _PROVIDER_REGISTRY = Nothing
    /\ adapter_calls = [n \in ProviderNames |-> 0]
    /\ call_log = <<>>
    /\ pc = [c \in Calls |-> "idle"]
    /\ req = [c \in Calls |-> NoRequest]
    /\ spec = [c \in Calls |-> Nothing]
    /\ adapter_out = [c \in Calls |-> Nothing]
    /\ caught = [c \in Calls |-> Nothing]
    /\ outcome = [c \in Calls |-> Nothing]
    /\ http_requests = [c \in Calls |-> 0]
    /\ upstream_log = [c \in Calls |-> <<>>]
    /\ log_attempts = [c \in Calls |-> <<>>]
    /\ stream = [c \in Calls |-> NoStream]

\* A support flow run that has not started. Run f uses call f of the gateway.
\* via names the entry point the run came in by, crew the use case of the
\* crew get_crew built for it.
NoFlow ==
    [pc |-> "idle", tenant_id |-> None, payload |-> Nothing, docs |-> <<>>,
     messages |-> <<>>, out |-> Nothing, trace |-> <<>>,
     via |-> None, headers |-> Nothing, tool_name |-> None, crew |-> None]

InitCrew ==
    /\ flow = [f \in Calls |-> NoFlow]
    /\ vector_queries = <<>>
    /\ tool_calls = <<>>

InitOther ==
    /\ resolved = [p \in Pairs |-> <<>>]
    /\ ixFirst = Nothing
    /\ ixSecond = Nothing
    /\ vector_indexes = <<>>
    /\ InitCrew

\* The process starts with some settings snapshot; the store holds the seed.
Init ==
    /\ settings \in [llm_default_provider : DefaultProviders \ {""},
                     llm_default_model : DefaultModels,
                     credentials : CredentialSets,
                     vector_store : {None}]
    /\ tenant_configs = DevSeed
    /\ InitGateway
    /\ InitOther

\* ------------------------------------------------------------------ generate
\* generate() from its call to its first suspension: resolve the spec, look the
\* adapter up, and run the adapter up to its first await.
generate(c, tenant_id, use_case, messages, stream_flag) ==
    /\ pc[c] = "idle"
    /\ LET sp == resolve_provider_spec(tenant_id, use_case)
           providers == get_provider_registry
           provider == RegistryGet(providers, sp.name)
       IN /\ _PROVIDER_REGISTRY' = providers
          /\ req' = [req EXCEPT ![c] = [tenant_id |-> tenant_id,
                                        use_case |-> use_case,
                                        messages |-> messages,
                                        stream |-> stream_flag]]
          /\ spec' = [spec EXCEPT ![c] = sp]
          /\ IF provider = Nothing
             THEN /\ outcome' = [outcome EXCEPT ![c] =
                                    [type |-> "raised", exc |-> UnknownProvider(sp.name)]]
                  /\ pc' = [pc EXCEPT ![c] = "done"]
                  /\ UNCHANGED <<adapter_calls, adapter_out, caught, http_requests>>
             ELSE LET step == ProviderBegin(provider, c, stream_flag)
                  IN /\ adapter_calls' = [adapter_calls EXCEPT ![provider.name] = @ + 1]
                     /\ outcome' = outcome
                     /\ CASE step.do = "raise" ->
                               /\ adapter_out' = [adapter_out EXCEPT ![c] =
                                                    [type |-> "raised", exc |-> step.exc]]
                               /\ caught' = [caught EXCEPT ![c] = step.exc]
                               /\ pc' = [pc EXCEPT ![c] = "log_error"]
                               /\ UNCHANGED http_requests
                          [] step.do = "post" ->
                               /\ http_requests' = [http_requests EXCEPT ![c] = @ + 1]
                               /\ pc' = [pc EXCEPT ![c] = "await_upstream"]
                               /\ UNCHANGED <<adapter_out, caught>>
                          [] step.do = "return" ->
                               /\ adapter_out' = [adapter_out EXCEPT ![c] = step.value]
                               /\ pc' = [pc EXCEPT ![c] = "log_success"]
                               /\ UNCHANGED <<caught, http_requests>>
    /\ UNCHANGED <<config_vars, call_log, upstream_log, log_attempts, stream>>

\* generate() called directly by a client of the gateway.
Generate(c, tenant_id, use_case, messages, stream_flag) ==
    /\ generate(c, tenant_id, use_case, messages, stream_flag)
    /\ UNCHANGED other_vars

\* The upstream answers the request the adapter is awaiting; the adapter runs
\* to its return or raise, and generate() goes on to the matching log write.
UpstreamReply(c, reply) ==
    /\ pc[c] = "await_upstream"
    /\ upstream_log' = [upstream_log EXCEPT ![c] =
                            Append(@, [by |-> "generate", reply |-> reply,
                                       payload |-> ProviderPayload(spec[c].name, spec[c].model,
                                                      req[c].messages, req[c].stream)])]
    /\ LET provider == RegistryGet(_PROVIDER_REGISTRY, spec[c].name)
           step == ProviderResume(provider, c, req[c].stream, reply)
       IN CASE step.do = "raise" ->
                 /\ adapter_out' = [adapter_out EXCEPT ![c] =
                                      [type |-> "raised", exc |-> step.exc]]
                 /\ caught' = [caught EXCEPT ![c] = step.exc]
                 /\ pc' = [pc EXCEPT ![c] = "log_error"]
                 /\ UNCHANGED http_requests
            [] step.do = "post" ->
                 /\ http_requests' = [http_requests EXCEPT ![c] = @ + 1]
                 /\ UNCHANGED <<adapter_out, caught, pc>>
            [] step.do = "return" ->
                 /\ adapter_out' = [adapter_out EXCEPT ![c] = step.value]
                 /\ pc' = [pc EXCEPT ![c] = "log_success"]
                 /\ UNCHANGED <<caught, http_requests>>
    /\ UNCHANGED <<config_vars, _PROVIDER_REGISTRY, adapter_calls, call_log, req,
                   spec, outcome, log_attempts, stream, other_vars>>

\* The success-path log write, inside the try block: when it commits, generate
\* returns the adapter's response; when it raises, the except clause catches
\* the log write's own exception.
LogSuccess(c, commit_ok) ==
    /\ pc[c] = "log_success"
    /\ log_attempts' = [log_attempts EXCEPT ![c] = Append(@, commit_ok)]
    /\ call_log' = _log_llm_call(call_log, c,
                      LLMCallLog(req[c].tenant_id, req[c].use_case, spec[c].name,
                                 spec[c].model, "success", None, None),
                      commit_ok)
    /\ IF commit_ok
       THEN /\ outcome' = [outcome EXCEPT ![c] =
                              [type |-> "returned", value |-> adapter_out[c]]]
            /\ stream' = [stream EXCEPT ![c] =
                              IF adapter_out[c].type = "stream"
                              THEN [NoStream EXCEPT !.phase = "unstarted"]
                              ELSE @]
            /\ pc' = [pc EXCEPT ![c] = "done"]
            /\ UNCHANGED caught
       ELSE /\ caught' = [caught EXCEPT ![c] = LogWriteFailure]
            /\ pc' = [pc EXCEPT ![c] = "log_error"]
            /\ UNCHANGED <<outcome, stream>>
    /\ UNCHANGED <<config_vars, _PROVIDER_REGISTRY, adapter_calls, req, spec,
                   adapter_out, http_requests, upstream_log, other_vars>>

\* The except clause: write the error row, then a bare `raise`. A log write
\* that raises here propagates in place of the caught exception.
LogError(c, commit_ok) ==
    /\ pc[c] = "log_error"
    /\ log_attempts' = [log_attempts EXCEPT ![c] = Append(@, commit_ok)]
    /\ call_log' = _log_llm_call(call_log, c,
                      LLMCallLog(req[c].tenant_id, req[c].use_case, spec[c].name,
                                 spec[c].model, "error", caught[c].kind, caught[c].msg),
                      commit_ok)
    /\ outcome' = [outcome EXCEPT ![c] =
                      [type |-> "raised",
                       exc |-> IF commit_ok THEN caught[c] ELSE LogWriteFailure]]
    /\ pc' = [pc EXCEPT ![c] = "done"]
    /\ UNCHANGED <<config_vars, _PROVIDER_REGISTRY, adapter_calls, req, spec,
                   adapter_out, caught, http_requests, upstream_log, stream,
                   other_vars>>

\* ----------------------------------------------------------------- streaming
\* The caller's first __anext__ on the returned generator: _iter_stream opens
\* its connection, which sends a request and receives the response head.
StreamOpen(c, reply, length) ==
    /\ pc[c] = "done"
    /\ stream[c].phase = "unstarted"
    /\ http_requests' = [http_requests EXCEPT ![c] = @ + 1]
    /\ upstream_log' = [upstream_log EXCEPT ![c] =
                            Append(@, [by |-> "stream", reply |-> reply,
                                       payload |-> ProviderPayload(spec[c].name, spec[c].model,
                                                      req[c].messages, req[c].stream)])]
    /\ LET step == IterStreamOpen(spec[c].name, reply)
       IN stream' = [stream EXCEPT ![c] =
             IF step.do = "raise"
             THEN [@ EXCEPT !.phase = "failed"]
             ELSE [@ EXCEPT !.phase = "open", !.status = step.value,
                            !.length = length]]
    /\ UNCHANGED <<config_vars, _PROVIDER_REGISTRY, adapter_calls, call_log, pc, req,
                   spec, adapter_out, caught, outcome, log_attempts, other_vars>>

\* s.aiter_text() advances: the next fragment of the body is yielded to the
\* caller, or the body is exhausted and the connection is closed.
StreamNext(c) ==
    /\ pc[c] = "done"
    /\ stream[c].phase = "open"
    /\ stream' = [stream EXCEPT ![c] =
          IF Len(@.delivered) < @.length
          THEN [@ EXCEPT !.delivered = Append(@, Len(@) + 1)]
          ELSE [@ EXCEPT !.phase = "closed"]]
    /\ UNCHANGED <<config_vars, _PROVIDER_REGISTRY, adapter_calls, call_log, pc, req,
                   spec, adapter_out, caught, outcome, http_requests, upstream_log,
                   log_attempts, other_vars>>

\* The connection drops while the body is being read: aiter_text raises inside
\* the generator, `async with` closes the response, and the consumer's
\* __anext__ raises the error.
StreamReadError(c) ==
    /\ pc[c] = "done"
    /\ stream[c].phase = "open"
    /\ stream' = [stream EXCEPT ![c] = [@ EXCEPT !.phase = "failed"]]
    /\ UNCHANGED <<config_vars, _PROVIDER_REGISTRY, adapter_calls, call_log, pc, req,
                   spec, adapter_out, caught, outcome, http_requests, upstream_log,
                   log_attempts, other_vars>>

\* The consumer leaves its `async for` early and drops the generator, which
\* stays suspended at its yield inside `async with`: the response is not
\* closed by this step.
StreamAbandon(c) ==
    /\ pc[c] = "done"
    /\ stream[c].phase = "open"
    /\ stream' = [stream EXCEPT ![c] = [@ EXCEPT !.phase = "abandoned"]]
    /\ UNCHANGED <<config_vars, _PROVIDER_REGISTRY, adapter_calls, call_log, pc, req,
                   spec, adapter_out, caught, outcome, http_requests, upstream_log,
                   log_attempts, other_vars>>

\* Mutant: the dropped generator is never closed.
StreamFinalize_Leaks(c) ==
    /\ pc[c] = "done"
    /\ stream[c].phase = "abandoned"
    /\ UNCHANGED vars

\* The event loop's asynchronous-generator finalizer runs aclose() on the
\* dropped generator: GeneratorExit is thrown at the yield and `async with`
\* closes the response.
StreamFinalize(c) ==
    /\ pc[c] = "done"
    /\ stream[c].phase = "abandoned"
    /\ stream' = [stream EXCEPT ![c] = [@ EXCEPT !.phase = "finalized"]]
    /\ UNCHANGED <<config_vars, _PROVIDER_REGISTRY, adapter_calls, call_log, pc, req,
                   spec, adapter_out, caught, outcome, http_requests, upstream_log,
                   log_attempts, other_vars>>

\* The consuming task is cancelled while it awaits the next fragment:
\* CancelledError is raised at the await inside the generator and leaves
\* through `async with`, which closes the response.
StreamCancel(c) ==
    /\ pc[c] = "done"
    /\ stream[c].phase = "open"
    /\ stream' = [stream EXCEPT ![c] = [@ EXCEPT !.phase = "cancelled"]]
    /\ UNCHANGED <<config_vars, _PROVIDER_REGISTRY, adapter_calls, call_log, pc, req,
                   spec, adapter_out, caught, outcome, http_requests, upstream_log,
                   log_attempts, other_vars>>

StreamEnded(c) == stream[c].phase \in {"closed", "failed", "cancelled", "finalized"}

\* Mutant: iterating the ended generator runs _iter_stream from its start.
StreamIterateAgain_Restarts(c) ==
    /\ pc[c] = "done"
    /\ StreamEnded(c)
    /\ stream[c].reads_after_end < MaxReadsAfterEnd
    /\ stream' = [stream EXCEPT ![c] =
                      [@ EXCEPT !.phase = "unstarted", !.reads_after_end = @ + 1]]
    /\ UNCHANGED <<config_vars, _PROVIDER_REGISTRY, adapter_calls, call_log, pc, req,
                   spec, adapter_out, caught, outcome, http_requests, upstream_log,
                   log_attempts, other_vars>>

\* The consumer iterates the generator again after it has ended: a finished
\* async generator raises StopAsyncIteration at once, so the loop body never
\* runs and nothing is sent.
StreamIterateAgain(c) ==
    /\ pc[c] = "done"
    /\ StreamEnded(c)
    /\ stream[c].reads_after_end < MaxReadsAfterEnd
    /\ stream' = [stream EXCEPT ![c] = [@ EXCEPT !.reads_after_end = @ + 1]]
    /\ UNCHANGED <<config_vars, _PROVIDER_REGISTRY, adapter_calls, call_log, pc, req,
                   spec, adapter_out, caught, outcome, http_requests, upstream_log,
                   log_attempts, other_vars>>

Next ==
    \/ \E c \in Calls, t \in Tenants, u \in UseCases, s \in BOOLEAN :
          Generate(c, t, u, ClientMessages, s)
    \/ \E c \in Calls, reply \in UpstreamReplies : UpstreamReply(c, reply)
    \/ \E c \in Calls, ok \in BOOLEAN : LogSuccess(c, ok)
    \/ \E c \in Calls, ok \in BOOLEAN : LogError(c, ok)
    \/ \E c \in Calls, reply \in UpstreamReplies, n \in 0..MaxFragments :
          StreamOpen(c, reply, n)
    \/ \E c \in Calls : StreamNext(c)

Spec == Init /\ [][Next]_vars

\* ------------------------------------------------- streams and their consumers
\* Every credential is present; the calls are streaming calls of one tenant
\* and use case.
InitStream ==
    /\ settings \in [llm_default_provider : {None, "anthropic", "ollama"},
                     llm_default_model : {None},
                     credentials : {CredentialNames},
                     vector_store : {None}]
    /\ tenant_configs = DevSeed
    /\ InitGateway
    /\ InitOther

NextStream ==
    \/ \E c \in Calls : Generate(c, "tenant_a", "support", ClientMessages, TRUE)
    \/ \E c \in Calls, reply \in UpstreamReplies : UpstreamReply(c, reply)
    \/ \E c \in Calls, ok \in BOOLEAN : LogSuccess(c, ok)
    \/ \E c \in Calls, ok \in BOOLEAN : LogError(c, ok)
    \/ \E c \in Calls, reply \in UpstreamReplies, n \in 0..MaxStreamFragments :
          StreamOpen(c, reply, n)
    \/ \E c \in Calls : StreamNext(c)
    \/ \E c \in Calls : StreamReadError(c)
    \/ \E c \in Calls : StreamAbandon(c)
    \/ \E c \in Calls : StreamFinalize(c)
    \/ \E c \in Calls : StreamCancel(c)
    \/ \E c \in Calls : StreamIterateAgain(c)

SpecStream == InitStream /\ [][NextStream]_vars

\* The consumer of an open stream goes on: it takes the next fragment, stops
\* early, or is cancelled. A dropped generator is finalized by the event loop.
FairStream ==
    \A c \in Calls :
        /\ WF_vars(StreamNext(c) \/ StreamAbandon(c) \/ StreamCancel(c))
        /\ WF_vars(StreamFinalize(c))

SpecStreamFair == SpecStream /\ FairStream

\* --------------------------------------------------------- the agent tools
\* The identifiers the tools receive, as the character sequences index_name
\* concatenates.
Chars ==
    [tenant_a |-> <<"t", "e", "n", "a", "n", "t", "_", "a">>,
     tenant_b |-> <<"t", "e", "n", "a", "n", "t", "_", "b">>,
     support  |-> <<"s", "u", "p", "p", "o", "r", "t">>,
     hr       |-> <<"h", "r">>,
     kb       |-> <<"k", "b">>,
     tickets  |-> <<"t", "i", "c", "k", "e", "t", "s">>]

Sources == {"kb", "tickets"}

VectorStores == {None, "http://vector-store:8080"}

\* A document of the vector engine.
Doc(id, text) == [id |-> id, text |-> text]

\* What the vector engine may hold: nothing, an empty index, or an index with
\* a document in it.
EngineStates ==
    {<<>>} \cup
    { [n \in {index_name(Chars[t], Chars["support"], Chars["kb"])} |-> docs] :
          t \in Tenants,
          docs \in {<<>>, <<Doc("kb-1", "Open Settings, then Reset password.")>>} }

\* VectorClient.__init__: refuses to exist without a configured vector store.
VectorClient_init ==
    IF settings.vector_store = None
    THEN Raise(Exc("RuntimeError", "Vector store not configured"))
    ELSE Return([vector_store |-> settings.vector_store])

\* Mutant: the engine is asked, and a missing index is an error.
VectorClient_query_AsksEngine(index, query_text, top_k) ==
    IF index \in DOMAIN vector_indexes
    THEN Return(vector_indexes[index])
    ELSE Raise(Exc("HTTPStatusError", StatusText(404)))

\* VectorClient.query: the request to the engine is not implemented; every
\* query returns the empty list.
VectorClient_query(index, query_text, top_k) == Return(<<>>)

\* VectorSearchTool.__init__
VectorSearchTool_init(tenant_id, use_case) ==
    LET client == VectorClient_init
    IN IF client.do = "raise" THEN client
       ELSE Return([tenant_id |-> tenant_id, use_case |-> use_case])

\* VectorSearchTool.__call__: the index of (tenant, use_case, source) is queried.
VectorSearchTool_index(tool, source) ==
    index_name(Chars[tool.tenant_id], Chars[tool.use_case], Chars[source])

VectorSearchTool_call(tool, query, source, top_k) ==
    VectorClient_query(VectorSearchTool_index(tool, source), query, top_k)

\* The row of vector_queries one VectorClient.query call leaves.
QueryRecord(by, tool, query, source, top_k) ==
    [by |-> by, index_name |-> VectorSearchTool_index(tool, source),
     query_text |-> query, top_k |-> top_k,
     result |-> VectorSearchTool_call(tool, query, source, top_k)]

\* The tool names the tool-context gateway recognises: those the repository's
\* MCP servers serve.
RecognisedTools == {"crm.lookup_customer", "hr_policy_rag.query"}

ToolNames == RecognisedTools \cup {"unknown.tool"}

ToolNotFoundError(tool_name) == Exc("ToolNotFoundError", "Unknown tool '" \o tool_name \o "'")

\* What the tool-context gateway answers to a call of a tool it recognises.
ToolReplies ==
    { [kind |-> "result", value |-> "customer record"],
      [kind |-> "error", value |-> "upstream failure"] }

\* MCPClient.call_tool: the call is delegated to the tool-context gateway; a
\* name the gateway does not recognise fails with ToolNotFoundError.
MCPClient_call_tool(tool_name, tenant_id, arguments, reply) ==
    IF tool_name \notin RecognisedTools THEN Raise(ToolNotFoundError(tool_name))
    ELSE IF reply.kind = "error" THEN Raise(Exc("ToolCallError", reply.value))
         ELSE Return(reply.value)

\* Mutant: whatever the client raises is swallowed and None is returned.
MCPTool_call_SwallowsError(tool_name, tenant_id, arguments, reply) ==
    LET step == MCPClient_call_tool(tool_name, tenant_id, arguments, reply)
    IN IF step.do = "raise" THEN Return(None) ELSE step

\* MCPTool.__call__: returns what the client returns, raises what it raises.
MCPTool_call(tool_name, tenant_id, arguments, reply) ==
    MCPClient_call_tool(tool_name, tenant_id, arguments, reply)

Outcome(step) ==
    IF step.do = "raise" THEN [type |-> "raised", exc |-> step.exc]
    ELSE [type |-> "returned", value |-> step.value]

\* Calls of generate() and of VectorClient.query made so far.
GenerateCalls == Cardinality({ c \in Calls : pc[c] # "idle" })
RetrievalCalls == Len(vector_queries)

\* An agent builds the retrieval tool for (tenant, use_case) and queries it.
VectorSearch(tenant_id, use_case, source) ==
    /\ Len(tool_calls) < MaxToolCalls
    /\ LET tool == VectorSearchTool_init(tenant_id, use_case)
           args == [tenant_id |-> tenant_id, use_case |-> use_case, source |-> source]
       IN IF tool.do = "raise"
          THEN /\ tool_calls' = Append(tool_calls,
                      [tool |-> "vector_search", args |-> args, queried |-> FALSE,
                       out |-> Outcome(tool), generate_calls |-> 0,
                       retrieval_calls |-> 0])
               /\ UNCHANGED vector_queries
          ELSE LET q == QueryRecord(0, tool.value, "reset password", source, 5)
               IN /\ vector_queries' = Append(vector_queries, q)
                  /\ tool_calls' = Append(tool_calls,
                         [tool |-> "vector_search", args |-> args, queried |-> TRUE,
                          out |-> Outcome(q.result), generate_calls |-> 0,
                          retrieval_calls |-> 1])
    /\ UNCHANGED <<config_vars, gateway_vars, resolved, ixFirst, ixSecond, flow,
                   vector_indexes>>

\* An agent calls an external tool through MCPTool. The calls of generate()
\* and of the vector client made during the tool call are counted.
MCPToolCall(tool_name, tenant_id, reply) ==
    /\ Len(tool_calls) < MaxToolCalls
    /\ UNCHANGED <<config_vars, gateway_vars, resolved, ixFirst, ixSecond, flow,
                   vector_indexes, vector_queries>>
    /\ tool_calls' = Append(tool_calls,
          [tool |-> "mcp", args |-> [tool_name |-> tool_name, tenant_id |-> tenant_id],
           queried |-> FALSE,
           out |-> Outcome(MCPTool_call(tool_name, tenant_id, <<>>, reply)),
           generate_calls |-> GenerateCalls' - GenerateCalls,
           retrieval_calls |-> RetrievalCalls' - RetrievalCalls])

InitTools ==
    /\ settings \in [llm_default_provider : {None},
                     llm_default_model : {None},
                     credentials : {CredentialNames},
                     vector_store : VectorStores]
    /\ tenant_configs = DevSeed
    /\ InitGateway
    /\ resolved = [p \in Pairs |-> <<>>]
    /\ ixFirst = Nothing
    /\ ixSecond = Nothing
    /\ vector_indexes \in EngineStates
    /\ InitCrew

NextTools ==
    \/ \E t \in Tenants, u \in UseCases, src \in Sources : VectorSearch(t, u, src)
    \/ \E n \in ToolNames, t \in Tenants, reply \in ToolReplies : MCPToolCall(n, t, reply)

SpecTools == InitTools /\ [][NextTools]_vars

\* ------------------------------------------------------------------ ingestion
\* The document sets given to ingest_documents.
DocumentSets ==
    { <<>>,
      << Doc("kb-1", "Open Settings, then Reset password.") >>,
      << Doc("kb-1", "Open Settings, then Reset password."),
         Doc("kb-2", "Contact support.") >> }

\* Mutant: the index is named by tenant and use case only.
ingest_documents_NoSource(tenant_id, use_case, source, documents) ==
    LET client == VectorClient_init
        idx == index_name_NoSource(Chars[tenant_id], Chars[use_case], Chars[source])
        create == [op |-> "create_index", index_name |-> idx, dimension |-> 1536]
        upsert == [op |-> "upsert", index_name |-> idx, docs |-> documents]
    IN IF client.do = "raise"
       THEN [out |-> Outcome(client), ops |-> <<>>]
       ELSE [out |-> Outcome(Return(None)),
             ops |-> IF documents = <<>> THEN <<create>> ELSE <<create, upsert>>]

\* ingest_documents: what it returns or raises, and the calls it makes on its
\* VectorClient, in order. Neither create_index nor upsert sends anything to
\* the engine, and neither suspends.
ingest_documents(tenant_id, use_case, source, documents) ==
    LET client == VectorClient_init
        idx == index_name(Chars[tenant_id], Chars[use_case], Chars[source])
        create == [op |-> "create_index", index_name |-> idx, dimension |-> 1536]
        upsert == [op |-> "upsert", index_name |-> idx, docs |-> documents]
    IN IF client.do = "raise"
       THEN [out |-> Outcome(client), ops |-> <<>>]
       ELSE [out |-> Outcome(Return(None)),
             ops |-> IF documents = <<>> THEN <<create>> ELSE <<create, upsert>>]

\* A run of ingest_documents.
Ingest(tenant_id, use_case, source, documents) ==
    /\ Len(tool_calls) < MaxToolCalls
    /\ LET run == ingest_documents(tenant_id, use_case, source, documents)
       IN tool_calls' = Append(tool_calls,
             [tool |-> "ingest",
              args |-> [tenant_id |-> tenant_id, use_case |-> use_case, source |-> source],
              documents |-> documents, queried |-> FALSE,
              out |-> run.out, ops |-> run.ops])
    /\ UNCHANGED <<config_vars, gateway_vars, resolved, ixFirst, ixSecond, flow,
                   vector_indexes, vector_queries>>

NextIngest ==
    \/ \E t \in Tenants, u \in UseCases, src \in Sources, docs \in DocumentSets :
          Ingest(t, u, src, docs)
    \/ \E t \in Tenants, u \in UseCases, src \in Sources : VectorSearch(t, u, src)

SpecIngest == InitTools /\ [][NextIngest]_vars

\* --------------------------------------------------------- the support flow
USE_CASE_NAME == "support"

\* Payloads given to SupportCrew.run: a SupportQuery instance, dicts that do
\* and do not validate as one, and a value that is no mapping.
Payloads ==
    { [kind |-> "SupportQuery", message |-> "reset password", channel |-> "web"],
      [kind |-> "dict", fields |-> [message |-> "reset password"]],
      [kind |-> "dict", fields |-> [channel |-> "email"]],
      [kind |-> "dict", fields |-> [message |-> None]],
      [kind |-> "NoneType"] }

\* SupportQuery(**fields): message is required and must be a string; channel
\* defaults to "web".
SupportQuery(fields) ==
    IF "message" \notin DOMAIN fields
    THEN Raise(Exc("ValidationError", "message: Field required"))
    ELSE IF fields.message = None
         THEN Raise(Exc("ValidationError", "message: Input should be a valid string"))
         ELSE Return([message |-> fields.message,
                      channel |-> IF "channel" \in DOMAIN fields
                                  THEN fields.channel ELSE "web"])

\* Mutant: a payload that does not validate is replaced by an empty query.
Intake_Lenient(payload) ==
    CASE payload.kind = "SupportQuery" ->
            Return([message |-> payload.message, channel |-> payload.channel])
      [] payload.kind = "dict" ->
            IF SupportQuery(payload.fields).do = "raise"
            THEN Return([message |-> "", channel |-> "web"])
            ELSE SupportQuery(payload.fields)
      [] OTHER -> Return([message |-> "", channel |-> "web"])

\* SupportCrew.run up to its call of run_support_flow: an instance is passed
\* on, anything else is unpacked with ** into the SupportQuery constructor.
Intake(payload) ==
    CASE payload.kind = "SupportQuery" ->
            Return([message |-> payload.message, channel |-> payload.channel])
      [] payload.kind = "dict" -> SupportQuery(payload.fields)
      [] OTHER ->
            Raise(Exc("TypeError", "argument after ** must be a mapping, not " \o payload.kind))

\* Mutant: an empty retrieval result is replaced by a placeholder snippet.
ContextSnippets_Placeholder(docs) ==
    IF docs = <<>> THEN <<"No context found.">>
    ELSE LET with_text == SelectSeq(docs, LAMBDA d : "text" \in DOMAIN d)
         IN [i \in DOMAIN with_text |-> with_text[i].text]

\* The texts "\n\n".join(...) puts into the context block, in order.
ContextSnippets(docs) ==
    LET with_text == SelectSeq(docs, LAMBDA d : "text" \in DOMAIN d)
    IN [i \in DOMAIN with_text |-> with_text[i].text]

\* The message list of run_support_flow: the system instruction, then the user
\* message followed by the context block.
SupportMessages(message, docs) ==
    << [role |-> "system", content |-> "support assistant instruction"],
       [role |-> "user",
        content |-> [user_message |-> message, context |-> ContextSnippets(docs)]] >>

\* sources of the reply: the id of every retrieved document.
SourcesOf(docs) ==
    [i \in DOMAIN docs |-> IF "id" \in DOMAIN docs[i] THEN docs[i].id ELSE ""]

\* The shapes of a vendor's 2xx JSON body the flow tells apart.
BodyShapes == {"choices", "no_choices", "empty_choices"}

\* llm_response.get("choices", [{}])[0].get("message", {}).get("content", "")
AnswerText(shape) ==
    CASE shape = "choices" -> Return("generated answer")
      [] shape = "no_choices" -> Return("")
      [] shape = "empty_choices" -> Raise(Exc("IndexError", "list index out of range"))

\* SupportReply(...).model_dump()
SupportReply(answer, sources) ==
    [answer |-> answer, sources |-> sources, confidence |-> None,
     escalation_flag |-> FALSE, escalation_reason |-> None]

\* The run ends by raising exc.
FlowRaised(f, exc, trace) ==
    [flow[f] EXCEPT !.pc = "done", !.out = [type |-> "raised", exc |-> exc],
                    !.trace = trace]

\* Mutant: the reply is built as soon as generate() has been entered.
Respond_Early(f, shape) ==
    /\ flow[f].pc = "compose"
    /\ flow' = [flow EXCEPT ![f] =
          [@ EXCEPT !.pc = "done",
                    !.out = [type |-> "returned",
                             value |-> SupportReply("", SourcesOf(flow[f].docs))],
                    !.trace = @ \o <<"result", "reply">>]]
    /\ UNCHANGED <<config_vars, gateway_vars, resolved, ixFirst, ixSecond,
                   vector_indexes, vector_queries, tool_calls>>

\* run(payload) up to the first suspension: Intake; the retrieval tool is
\* built and queried (the query returns without suspending); the messages are
\* built; call_llm enters generate(), which runs to its first await.
\* trace lists what the run has done: intake (payload normalized), query
\* (sent), docs (returned), generate (called), result (returned by generate),
\* reply (built).
\* run_support_flow(query) of the crew built for entered.tenant_id, up to its
\* first suspension; entered is the run's record as its entry point left it.
run_support_flow(f, entered, query) ==
    LET tool == VectorSearchTool_init(entered.tenant_id, USE_CASE_NAME)
    IN IF tool.do = "raise"
       THEN /\ flow' = [flow EXCEPT ![f] =
                     [entered EXCEPT !.pc = "done",
                                     !.out = [type |-> "raised", exc |-> tool.exc],
                                     !.trace = <<"intake">>]]
            /\ UNCHANGED <<config_vars, gateway_vars, vector_queries>>
       ELSE LET q == QueryRecord(f, tool.value, query.message, "kb", 5)
                docs == q.result.value
                messages == SupportMessages(query.message, docs)
            IN /\ vector_queries' = Append(vector_queries, q)
               /\ flow' = [flow EXCEPT ![f] =
                     [entered EXCEPT !.pc = "compose", !.docs = docs,
                                     !.messages = messages,
                                     !.trace = <<"intake", "query", "docs", "generate">>]]
               /\ generate(f, entered.tenant_id, USE_CASE_NAME, messages, FALSE)

Run(f, tenant_id, payload) ==
    /\ flow[f].pc = "idle"
    /\ pc[f] = "idle"
    /\ LET intake == Intake(payload)
           entered == [flow[f] EXCEPT !.tenant_id = tenant_id, !.payload = payload,
                                      !.via = "run", !.crew = USE_CASE_NAME]
       IN IF intake.do = "raise"
          THEN /\ flow' = [flow EXCEPT ![f] =
                        [entered EXCEPT !.pc = "done",
                                        !.out = [type |-> "raised", exc |-> intake.exc]]]
               /\ UNCHANGED <<config_vars, gateway_vars, vector_queries>>
          ELSE run_support_flow(f, entered, intake.value)
    /\ UNCHANGED <<resolved, ixFirst, ixSecond, vector_indexes, tool_calls>>

\* Mutant: a failure of generate is answered with an empty reply.
Respond_Degraded(f, shape) ==
    /\ flow[f].pc = "compose"
    /\ pc[f] = "done"
    /\ flow' = [flow EXCEPT ![f] =
          [@ EXCEPT !.pc = "done",
                    !.out = [type |-> "returned",
                             value |-> SupportReply("", SourcesOf(flow[f].docs))],
                    !.trace = @ \o <<"result", "reply">>]]
    /\ UNCHANGED <<config_vars, gateway_vars, resolved, ixFirst, ixSecond,
                   vector_indexes, vector_queries, tool_calls>>

\* generate() has finished: call_llm raises what it raised, and the run ends
\* with that exception; or it returns the response, from which the reply is
\* built and returned.
Respond(f, shape) ==
    /\ flow[f].pc = "compose"
    /\ pc[f] = "done"
    /\ IF outcome[f].type = "raised"
       THEN flow' = [flow EXCEPT ![f] = FlowRaised(f, outcome[f].exc, flow[f].trace)]
       ELSE LET answer == AnswerText(shape)
            IN IF answer.do = "raise"
               THEN flow' = [flow EXCEPT ![f] =
                       FlowRaised(f, answer.exc, flow[f].trace \o <<"result">>)]
               ELSE flow' = [flow EXCEPT ![f] =
                       [@ EXCEPT !.pc = "done",
                                 !.out = [type |-> "returned",
                                          value |-> SupportReply(answer.value,
                                                        SourcesOf(flow[f].docs))],
                                 !.trace = @ \o <<"result", "reply">>]]
    /\ UNCHANGED <<config_vars, gateway_vars, resolved, ixFirst, ixSecond,
                   vector_indexes, vector_queries, tool_calls>>

InitFlow ==
    /\ settings \in [llm_default_provider : {None, "ollama", "mistral"},
                     llm_default_model : {None},
                     credentials : {{}, CredentialNames},
                     vector_store : VectorStores]
    /\ tenant_configs = DevSeed
    /\ InitGateway
    /\ InitOther

NextFlow ==
    \/ \E f \in Calls, t \in Tenants, payload \in Payloads : Run(f, t, payload)
    \/ \E c \in Calls, reply \in UpstreamReplies : UpstreamReply(c, reply)
    \/ \E c \in Calls, ok \in BOOLEAN : LogSuccess(c, ok)
    \/ \E c \in Calls, ok \in BOOLEAN : LogError(c, ok)
    \/ \E f \in Calls, shape \in BodyShapes : Respond(f, shape)

SpecFlow == InitFlow /\ [][NextFlow]_vars

\* -------------------------------------------------------- the HTTP endpoints
HTTPException(status_code, detail) ==
    [kind |-> "HTTPException", msg |-> detail, status_code |-> status_code]

\* The use cases that have a crew builder.
CREW_BUILDERS == {"support"}

\* get_crew: the crew of the use case, named here by its use case.
get_crew(use_case) ==
    IF use_case \in CREW_BUILDERS THEN Return(use_case)
    ELSE Raise(Exc("ValueError",
                   "No crew builder registered for use_case='" \o use_case \o "'"))

\* The tool names GET /tools lists, per server.
tools_list(server) ==
    CASE server = "mcp_host" -> {"support.answer_ticket", "legal.review_contract"}
      [] server = "crm" -> {"crm.lookup_customer"}
      [] server = "langflow" -> {"support_rag.query", "hr_policy_rag.query"}

Servers == {"mcp_host", "crm", "langflow"}

\* Tool names a client may send: every listed name and one no server lists.
ToolCallNames == UNION { tools_list(s) : s \in Servers } \cup {"billing.refund"}

\* The arguments of a tool call: a valid support query, and one without its
\* required message.
ArgumentSets == { [message |-> "reset password"], [channel |-> "email"] }

\* The headers of a request: X-Tenant-ID and Authorization, each present or not.
NoAuthorization == [scheme |-> "none", token |-> ""]
HeaderSets ==
    { [X_Tenant_ID |-> t, Authorization |-> a] :
         t \in Tenants \cup {None},
         a \in {NoAuthorization, [scheme |-> "Bearer", token |-> "user-1"]} }

\* AuthContextMiddleware.dispatch: the UserContext attached to the request.
\* The request is always passed on to the route.
AuthContextMiddleware_dispatch(headers) ==
    [user_id |-> IF headers.Authorization.scheme = "Bearer"
                 THEN headers.Authorization.token ELSE None,
     tenant_id |-> headers.X_Tenant_ID,
     roles |-> <<>>]

\* get_tenant_id: the dependency of the support route.
get_tenant_id(user) ==
    IF user.tenant_id = None
    THEN Raise(HTTPException(400,
              "Missing tenant context. Ensure X-Tenant-ID header and auth middleware."))
    ELSE Return(user.tenant_id)

\* The status of the response the application sends for what a handler
\* returned or raised: an HTTPException carries its own status, a body that
\* does not validate is answered 422, a ValueError (pydantic's
\* ValidationError is one) is answered 400 by the application's handler, any
\* other exception 500.
ResponseStatus(out) ==
    IF out.type = "returned" THEN 200
    ELSE CASE out.exc.kind = "HTTPException" -> out.exc.status_code
           [] out.exc.kind = "RequestValidationError" -> 422
           [] out.exc.kind \in {"ValueError", "ValidationError"} -> 400
           [] OTHER -> 500

\* The handler ends by raising exc before any flow has started.
Rejected(entered, exc) ==
    [entered EXCEPT !.pc = "done", !.out = [type |-> "raised", exc |-> exc]]

\* POST /support/query up to its first suspension: the middleware, the
\* tenant dependency, the validation of the body, get_crew, run_support_flow.
support_query(f, headers, body) ==
    /\ flow[f].pc = "idle"
    /\ pc[f] = "idle"
    /\ LET user == AuthContextMiddleware_dispatch(headers)
           tenant == get_tenant_id(user)
           payload == SupportQuery(body)
           crew == get_crew("support")
           entered == [flow[f] EXCEPT !.tenant_id = user.tenant_id,
                                      !.payload = [kind |-> "dict", fields |-> body],
                                      !.via = "support_query", !.headers = headers]
       IN IF tenant.do = "raise"
          THEN /\ flow' = [flow EXCEPT ![f] = Rejected(entered, tenant.exc)]
               /\ UNCHANGED <<config_vars, gateway_vars, vector_queries>>
          ELSE IF payload.do = "raise"
          THEN /\ flow' = [flow EXCEPT ![f] =
                     Rejected(entered, Exc("RequestValidationError", payload.exc.msg))]
               /\ UNCHANGED <<config_vars, gateway_vars, vector_queries>>
          ELSE IF crew.do = "raise"
          THEN /\ flow' = [flow EXCEPT ![f] = Rejected(entered, crew.exc)]
               /\ UNCHANGED <<config_vars, gateway_vars, vector_queries>>
          ELSE run_support_flow(f, [entered EXCEPT !.crew = crew.value], payload.value)
    /\ UNCHANGED <<resolved, ixFirst, ixSecond, vector_indexes, tool_calls>>

\* POST /tools/call of the MCP host, with a body that validates as a
\* ToolCallRequest, up to its first suspension.
tools_call(f, tool_name, tenant_id, arguments) ==
    /\ flow[f].pc = "idle"
    /\ pc[f] = "idle"
    /\ LET entered == [flow[f] EXCEPT !.tenant_id = tenant_id,
                                      !.payload = [kind |-> "dict", fields |-> arguments],
                                      !.via = "mcp_host", !.tool_name = tool_name]
       IN CASE tool_name = "support.answer_ticket" ->
                 LET crew == get_crew("support")
                     support_query_ == SupportQuery(arguments)
                 IN IF crew.do = "raise"
                    THEN /\ flow' = [flow EXCEPT ![f] = Rejected(entered, crew.exc)]
                         /\ UNCHANGED <<config_vars, gateway_vars, vector_queries>>
                    ELSE IF support_query_.do = "raise"
                    THEN /\ flow' = [flow EXCEPT ![f] =
                               Rejected([entered EXCEPT !.crew = crew.value],
                                        support_query_.exc)]
                         /\ UNCHANGED <<config_vars, gateway_vars, vector_queries>>
                    ELSE run_support_flow(f, [entered EXCEPT !.crew = crew.value],
                                          support_query_.value)
            [] tool_name = "legal.review_contract" ->
                 LET crew == get_crew("legal")
                 IN /\ flow' = [flow EXCEPT ![f] =
                          IF crew.do = "raise" THEN Rejected(entered, crew.exc)
                          ELSE Rejected([entered EXCEPT !.crew = crew.value],
                                        Exc("AttributeError", "run_contract_review"))]
                    /\ UNCHANGED <<config_vars, gateway_vars, vector_queries>>
            [] OTHER ->
                 /\ flow' = [flow EXCEPT ![f] =
                       Rejected(entered,
                                HTTPException(404, "Unknown tool '" \o tool_name \o "'"))]
                 /\ UNCHANGED <<config_vars, gateway_vars, vector_queries>>
    /\ UNCHANGED <<resolved, ixFirst, ixSecond, vector_indexes, tool_calls>>

\* Mutant: a name the server does not serve is answered with an empty result.
server_tools_call_AnswersUnknown(f, server, tool_name, reply) ==
    /\ server \in {"crm", "langflow"}
    /\ flow[f].pc = "idle"
    /\ pc[f] = "idle"
    /\ flow' = [flow EXCEPT ![f] =
          [@ EXCEPT !.pc = "done", !.via = server, !.tool_name = tool_name,
                    !.out = [type |-> "returned", value |-> [result |-> <<>>]]]]
    /\ UNCHANGED <<config_vars, gateway_vars, resolved, ixFirst, ixSecond,
                   vector_indexes, vector_queries, tool_calls>>

\* POST /tools/call of the CRM server and of the Langflow tools server: a name
\* the server does not serve is answered 404; a served tool is forwarded to
\* the server's backend, whose reply decides the answer.
server_tools_call(f, server, tool_name, reply) ==
    /\ server \in {"crm", "langflow"}
    /\ flow[f].pc = "idle"
    /\ pc[f] = "idle"
    /\ LET entered == [flow[f] EXCEPT !.via = server, !.tool_name = tool_name]
           failure == IF reply.kind = "network_error" THEN ConnectError
                      ELSE raise_for_status(reply.status)
       IN flow' = [flow EXCEPT ![f] =
             IF tool_name \notin tools_list(server)
             THEN Rejected(entered,
                           HTTPException(404, "Unknown tool '" \o tool_name \o "'"))
             ELSE IF server = "crm" /\ reply.kind = "response" /\ reply.status = 404
             THEN Rejected(entered, HTTPException(404, "Customer not found"))
             ELSE IF failure # Nothing
             THEN Rejected(entered, failure)
             ELSE [entered EXCEPT !.pc = "done",
                                  !.out = [type |-> "returned",
                                           value |-> [result |-> <<"backend data">>]]]]
    /\ UNCHANGED <<config_vars, gateway_vars, resolved, ixFirst, ixSecond,
                   vector_indexes, vector_queries, tool_calls>>

InitApi ==
    /\ settings \in [llm_default_provider : {None, "ollama"},
                     llm_default_model : {None},
                     credentials : {CredentialNames},
                     vector_store : VectorStores]
    /\ tenant_configs = DevSeed
    /\ InitGateway
    /\ InitOther

NextApi ==
    \/ \E f \in Calls, headers \in HeaderSets, body \in ArgumentSets :
          support_query(f, headers, body)
    \/ \E f \in Calls, n \in ToolCallNames, t \in Tenants, a \in ArgumentSets :
          tools_call(f, n, t, a)
    \/ \E f \in Calls, s \in {"crm", "langflow"}, n \in ToolCallNames,
          reply \in UpstreamReplies :
          server_tools_call(f, s, n, reply)
    \/ \E c \in Calls, reply \in UpstreamReplies : UpstreamReply(c, reply)
    \/ \E c \in Calls, ok \in BOOLEAN : LogSuccess(c, ok)
    \/ \E c \in Calls, ok \in BOOLEAN : LogError(c, ok)
    \/ \E f \in Calls, shape \in BodyShapes : Respond(f, shape)

SpecApi == InitApi /\ [][NextApi]_vars

\* ------------------------------------------- messages on their way upstream
\* Every registered vendor, with its credentials; callers pass any of the
\* message lists, and the support flow passes its own.
InitMessages ==
    /\ settings \in [llm_default_provider : {None, "anthropic", "watsonx", "ollama"},
                     llm_default_model : {None},
                     credentials : {CredentialNames},
                     vector_store : {"http://vector-store:8080"}]
    /\ tenant_configs = DevSeed
    /\ InitGateway
    /\ InitOther

NextMessages ==
    \/ \E c \in Calls, messages \in MessageLists, s \in BOOLEAN :
          Generate(c, "tenant_a", "support", messages, s)
    \/ \E f \in Calls :
          Run(f, "tenant_a", [kind |-> "dict", fields |-> [message |-> "reset password"]])
    \/ \E c \in Calls, reply \in UpstreamReplies : UpstreamReply(c, reply)
    \/ \E c \in Calls : LogSuccess(c, TRUE)
    \/ \E c \in Calls : LogError(c, TRUE)
    \/ \E c \in Calls, reply \in UpstreamReplies : StreamOpen(c, reply, 0)

SpecMessages == InitMessages /\ [][NextMessages]_vars

\* ------------------------------------------------ policy resolution on its own
\* Any settings snapshot and any content of the configuration store.
InitResolve ==
    /\ settings \in [llm_default_provider : DefaultProviders,
                     llm_default_model : DefaultModels,
                     credentials : {CredentialNames},
                     vector_store : {None}]
    /\ tenant_configs \in Stores
    /\ InitGateway
    /\ InitOther

Resolve(tenant_id, use_case) ==
    /\ Len(resolved[<<tenant_id, use_case>>]) < MaxResolves
    /\ resolved' = [resolved EXCEPT ![<<tenant_id, use_case>>] =
                        Append(@, resolve_provider_spec(tenant_id, use_case))]
    /\ UNCHANGED <<config_vars, gateway_vars, ixFirst, ixSecond, crew_vars>>

NextResolve == \E t \in Tenants, u \in UseCases : Resolve(t, u)

SpecResolve == InitResolve /\ [][NextResolve]_vars

\* ------------------------------------------------------ index_name on its own
Triples == Strings \X Strings \X Strings

IndexCall(args) == [args |-> args, name |-> index_name(args[1], args[2], args[3])]

\* The first recorded call.
IndexNameFirst(args) ==
    /\ ixSecond = Nothing
    /\ ixSecond' = IndexCall(args)
    /\ UNCHANGED <<config_vars, gateway_vars, resolved, ixFirst, crew_vars>>

\* The second recorded call, with any arguments; the first is kept beside it.
IndexNameNext(args) ==
    /\ ixSecond # Nothing
    /\ ixFirst = Nothing
    /\ ixFirst' = ixSecond
    /\ ixSecond' = IndexCall(args)
    /\ UNCHANGED <<config_vars, gateway_vars, resolved, crew_vars>>

\* A later call whose arguments are the previous call's with component k
\* replaced by x.
IndexNameVaried(k, x) ==
    /\ ixSecond # Nothing
    /\ ixFirst' = ixSecond
    /\ ixSecond' = IndexCall([ixSecond.args EXCEPT ![k] = x])
    /\ UNCHANGED <<config_vars, gateway_vars, resolved, crew_vars>>

InitIndex ==
    /\ settings = [llm_default_provider |-> None, llm_default_model |-> None,
                   credentials |-> {}, vector_store |-> None]
    /\ tenant_configs = DevSeed
    /\ InitGateway
    /\ InitOther

NextIndex ==
    \/ \E args \in Triples : IndexNameFirst(args)
    \/ \E args \in Triples : IndexNameNext(args)

SpecIndex == InitIndex /\ [][NextIndex]_vars

NextIndexVaried ==
    \/ \E args \in Triples : IndexNameFirst(args)
    \/ \E k \in 1..3, x \in Strings : IndexNameVaried(k, x)

SpecIndexVaried == InitIndex /\ [][NextIndexVaried]_vars

\* =================================================================== claims
Registered(c) == spec[c] # Nothing /\ spec[c].name \in ProviderNames

RowsBy(c) == { i \in DOMAIN call_log : call_log[i].by = c }

StatusMatchesOutcome(c) ==
    \A i \in RowsBy(c) :
        /\ call_log[i].row.status = "success" <=> outcome[c].type = "returned"
        /\ call_log[i].row.status = "error" <=> outcome[c].type = "raised"

\* C1 (as claimed): every finished generate call that reached an adapter has
\* produced exactly one call-log row, whatever the log writes did, and the
\* row's status is "success" iff generate returned, "error" iff it raised.
C1_ExactlyOneEntryPerCall ==
    \A c \in Calls :
        (pc[c] = "done" /\ Registered(c)) =>
            /\ Cardinality(RowsBy(c)) = 1
            /\ StatusMatchesOutcome(c)

\* C1 (amended): a generate call never produces more than one call-log row;
\* once it has finished having reached an adapter, it has produced exactly one
\* row if its last log write committed and none if that write failed, and the
\* row's status is "success" iff generate returned, "error" iff it raised.
C1_OneEntryUnlessLogWriteFails ==
    \A c \in Calls :
        /\ Cardinality(RowsBy(c)) <= 1
        /\ (pc[c] = "done" /\ Registered(c)) =>
              /\ log_attempts[c] # <<>>
              /\ Cardinality(RowsBy(c)) =
                    (IF log_attempts[c][Len(log_attempts[c])] THEN 1 ELSE 0)
              /\ StatusMatchesOutcome(c)

\* C1 witness: one call returned with its "success" row, another raised with
\* its "error" row.
C1_Witness ==
    \E c, d \in Calls :
        /\ pc[c] = "done" /\ outcome[c].type = "returned"
        /\ \E i \in RowsBy(c) : call_log[i].row.status = "success"
        /\ pc[d] = "done" /\ outcome[d].type = "raised"
        /\ \E i \in RowsBy(d) : call_log[i].row.status = "error"

\* C2 (as claimed): when the adapter's generate raised E, the finished call
\* raised E itself to its caller, also when the error-path log write failed.
C2_AdapterErrorReachesCaller ==
    \A c \in Calls :
        (pc[c] = "done" /\ adapter_out[c].type = "raised") =>
            outcome[c] = [type |-> "raised", exc |-> adapter_out[c].exc]

\* C3 (as claimed): when the adapter's generate returned R, the finished call
\* returned R to its caller, also when the success-path log write failed.
C3_LogFailureNeverSurfaces ==
    \A c \in Calls :
        (pc[c] = "done" /\ adapter_out[c].type \in {"response", "stream"}) =>
            outcome[c] = [type |-> "returned", value |-> adapter_out[c]]

\* C4: a call whose resolved provider name is not in the registry has failed
\* at once with the unknown-provider error: no adapter's generate has been
\* invoked, no request was sent, and no log write was attempted or committed.
C4_UnknownProviderFailsBeforeDispatch ==
    \A c \in Calls :
        (spec[c] # Nothing /\ spec[c].name \notin ProviderNames) =>
            /\ pc[c] = "done"
            /\ outcome[c] = [type |-> "raised", exc |-> UnknownProvider(spec[c].name)]
            /\ \A n \in ProviderNames : adapter_calls[n] = 0
            /\ adapter_out[c] = Nothing
            /\ http_requests[c] = 0
            /\ log_attempts[c] = <<>>
            /\ RowsBy(c) = {}

\* C4 witness: every call of the process was made and failed on the unknown
\* provider.
C4_Witness ==
    \A c \in Calls :
        /\ pc[c] = "done"
        /\ spec[c].name = "mistral"
        /\ outcome[c].exc.kind = "ValueError"

\* The global default the settings snapshot stands for.
GlobalDefault ==
    [name  |-> IF settings.llm_default_provider \in {None, ""}
               THEN "openai" ELSE settings.llm_default_provider,
     model |-> IF settings.llm_default_model \in {None, ""}
               THEN "gpt-4.1-mini" ELSE settings.llm_default_model]

\* C5: for a (tenant, use_case) with no override in the store, every resolve
\* call returned the global default pair (the baseline openai / gpt-4.1-mini
\* where the settings carry none), so repeated calls returned equal specs.
C5_DefaultForPairsWithoutOverride ==
    \A p \in Pairs :
        ~HasOverride(p[1], p[2]) =>
            \A i \in DOMAIN resolved[p] : resolved[p][i] = GlobalDefault

\* C5 witness: resolve was called repeatedly for a pair without override under
\* settings that carry no default, and returned the baseline.
C5_Witness ==
    \E p \in Pairs :
        /\ ~HasOverride(p[1], p[2])
        /\ settings.llm_default_provider = None
        /\ settings.llm_default_model = None
        /\ Len(resolved[p]) >= 2
        /\ resolved[p][2] = [name |-> "openai", model |-> "gpt-4.1-mini"]

\* C6 (as claimed): for a (tenant, use_case) whose store entry's llm_policy
\* names a provider and a model, every resolve call returned that pair.
C6_OverrideTakesPriority ==
    \A p \in Pairs :
        HasOverride(p[1], p[2]) =>
            \A i \in DOMAIN resolved[p] :
                resolved[p][i] = [name  |-> tenant_configs[p].provider,
                                  model |-> tenant_configs[p].model]

BothIndexCalls == ixFirst # Nothing /\ ixSecond # Nothing

\* C7 (as claimed): two index_name calls with distinct (tenant_id, use_case,
\* source) triples returned different names.
C7_IndexNameInjective ==
    (BothIndexCalls /\ ixFirst.args # ixSecond.args) => ixFirst.name # ixSecond.name

DifferingComponents(a, b) == { k \in 1..3 : a[k] # b[k] }

\* The name reads: tenant_id, two underscores, use_case, two underscores, source.
WellFormedName(call) ==
    LET t == call.args[1]
        u == call.args[2]
        src == call.args[3]
        n == call.name
    IN /\ Len(n) = Len(t) + Len(u) + Len(src) + 4
       /\ SubSeq(n, 1, Len(t)) = t
       /\ SubSeq(n, Len(t) + 1, Len(t) + 2) = <<"_", "_">>
       /\ SubSeq(n, Len(t) + 3, Len(t) + Len(u) + 2) = u
       /\ SubSeq(n, Len(t) + Len(u) + 3, Len(t) + Len(u) + 4) = <<"_", "_">>
       /\ SubSeq(n, Len(t) + Len(u) + 5, Len(n)) = src

\* C8: two index_name calls whose arguments differ in exactly one component
\* returned different names, two calls with identical arguments returned the
\* same name, and every returned name is tenant_id + "__" + use_case + "__" +
\* source.
C8_OneComponentChangesName ==
    /\ ixSecond # Nothing => WellFormedName(ixSecond)
    /\ BothIndexCalls =>
          /\ Cardinality(DifferingComponents(ixFirst.args, ixSecond.args)) = 1
                => ixFirst.name # ixSecond.name
          /\ ixFirst.args = ixSecond.args => ixFirst.name = ixSecond.name

\* C8 witness: two calls that differ only in a use_case containing an
\* underscore, with different names.
C8_Witness ==
    /\ BothIndexCalls
    /\ DifferingComponents(ixFirst.args, ixSecond.args) = {2}
    /\ "_" \in { ixSecond.args[2][i] : i \in DOMAIN ixSecond.args[2] }
    /\ ixFirst.name # ixSecond.name

\* The credentials each vendor's API needs; Ollama needs none.
CredentialAbsent(name) ==
    CASE name = "openai" -> "openai_api_key" \notin settings.credentials
      [] name = "anthropic" -> "anthropic_api_key" \notin settings.credentials
      [] name = "watsonx" -> \E k \in {"watsonx_api_key", "watsonx_project_id"} :
                                k \notin settings.credentials
      [] OTHER -> FALSE

\* C9: a call dispatched to an adapter one of whose required credentials is
\* absent had the adapter raise its not-configured error with no request sent
\* to the vendor and no stream handed out, for stream = true and false alike.
C9_MissingCredentialRaisesBeforeRequest ==
    \A c \in Calls :
        (Registered(c) /\ CredentialAbsent(spec[c].name)) =>
            /\ adapter_out[c].type = "raised"
            /\ adapter_out[c].exc.kind = "RuntimeError"
            /\ http_requests[c] = 0
            /\ stream[c].phase = "none"

\* C9 witness: a streaming and a non-streaming call to watsonx with the
\* project id missing both ended on the adapter's RuntimeError.
C9_Witness ==
    \E c, d \in Calls :
        /\ settings.credentials = {"watsonx_api_key"}
        /\ pc[c] = "done" /\ pc[d] = "done"
        /\ spec[c].name = "watsonx" /\ spec[d].name = "watsonx"
        /\ req[c].stream /\ ~req[d].stream
        /\ adapter_out[c].type = "raised" /\ adapter_out[d].type = "raised"
        /\ adapter_out[c].exc.kind = "RuntimeError"
        /\ adapter_out[d].exc.kind = "RuntimeError"
        /\ http_requests[c] = 0 /\ http_requests[d] = 0

Is2xx(status) == status >= 200 /\ status < 300

\* C10 (as claimed): no non-2xx upstream response has been handed to the
\* caller as a result or as a stream: a materialized response is 2xx, and a
\* stream whose response was non-2xx has yielded no fragment and has not
\* ended normally.
C10_Non2xxSurfacedAsError ==
    \A c \in Calls :
        /\ adapter_out[c].type = "response" => Is2xx(adapter_out[c].status)
        /\ (stream[c].phase \in {"open", "closed"} /\ ~Is2xx(stream[c].status)) =>
              /\ stream[c].delivered = <<>>
              /\ stream[c].phase # "closed"

\* An upstream request failed: no response arrived, or a non-2xx one did.
Failed(reply) == reply.kind = "network_error" \/ ~Is2xx(reply.status)

\* The exception an adapter's generate raises for a failed request.
UpstreamFailure(reply) ==
    IF reply.kind = "network_error" THEN ConnectError
    ELSE Exc("HTTPStatusError", StatusText(reply.status))

StreamRequests(c) ==
    { i \in DOMAIN upstream_log[c] : upstream_log[c][i].by = "stream" }

\* C12: a stream hands its consumer the fragments of the body in the order
\* the upstream produced them, each at most once, and all of them exactly once
\* when it was drained; iterating an ended stream again yields nothing: the
\* fragments delivered stay as they were and the stream has sent one request
\* at most.
C12_FragmentsOnceInOrder ==
    \A c \in Calls :
        /\ Len(stream[c].delivered) <= stream[c].length
        /\ \A i \in DOMAIN stream[c].delivered : stream[c].delivered[i] = i
        /\ stream[c].phase = "closed" =>
              Len(stream[c].delivered) = stream[c].length
        /\ Cardinality(StreamRequests(c)) <= 1
        /\ stream[c].reads_after_end > 0 => StreamEnded(c)

\* C12 witness: a stream of two fragments was drained and then iterated again.
C12_Witness ==
    \E c \in Calls :
        /\ stream[c].phase = "closed"
        /\ stream[c].delivered = <<1, 2>>
        /\ stream[c].reads_after_end = 1
        /\ Cardinality(StreamRequests(c)) = 1

ConnectionOpen(c) == stream[c].phase \in {"open", "abandoned"}

Returned(c) == pc[c] = "done" /\ outcome[c].type = "returned"

VectorSearches == { i \in DOMAIN tool_calls : tool_calls[i].tool = "vector_search" }

\* The index a retrieval tool call addresses.
IndexOf(args) == index_name(Chars[args.tenant_id], Chars[args.use_case], Chars[args.source])

\* The index is not provisioned, or holds nothing that could match.
NoMatches(index) == index \notin DOMAIN vector_indexes \/ vector_indexes[index] = <<>>

EmptyResult == [type |-> "returned", value |-> <<>>]

\* C19 (as claimed): every use of the retrieval tool for a (tenant, use_case,
\* source) whose index has no matches or is not provisioned returned the empty
\* sequence and raised nothing.
C19_RetrievalNeverErrors ==
    \A i \in VectorSearches :
        NoMatches(IndexOf(tool_calls[i].args)) => tool_calls[i].out = EmptyResult

\* C19 (amended): with a vector store configured, every use of the retrieval
\* tool for an index without matches or not provisioned queried the client and
\* returned the empty sequence; with none configured the tool could not be
\* built: the use raised "Vector store not configured" and made no query. No
\* query of the vector client ever raised.
C19_EmptyWhenStoreConfigured ==
    /\ \A i \in VectorSearches :
          NoMatches(IndexOf(tool_calls[i].args)) =>
              IF settings.vector_store # None
              THEN tool_calls[i].queried /\ tool_calls[i].out = EmptyResult
              ELSE /\ ~tool_calls[i].queried
                   /\ tool_calls[i].out =
                         [type |-> "raised",
                          exc |-> Exc("RuntimeError", "Vector store not configured")]
    /\ \A k \in DOMAIN vector_queries :
          /\ vector_queries[k].result.do = "return"
          /\ NoMatches(vector_queries[k].index_name) =>
                vector_queries[k].result.value = <<>>

\* C19 witness: with a store configured, a query of a provisioned but empty
\* index and a query of an index that was never provisioned both returned the
\* empty sequence.
C19_Witness ==
    \E i, j \in VectorSearches :
        /\ settings.vector_store # None
        /\ IndexOf(tool_calls[i].args) \in DOMAIN vector_indexes
        /\ vector_indexes[IndexOf(tool_calls[i].args)] = <<>>
        /\ IndexOf(tool_calls[j].args) \notin DOMAIN vector_indexes
        /\ tool_calls[i].out = EmptyResult
        /\ tool_calls[j].out = EmptyResult

MCPCalls == { i \in DOMAIN tool_calls : tool_calls[i].tool = "mcp" }

FullTrace == <<"intake", "query", "docs", "generate", "result", "reply">>

IsPrefix(s, t) == Len(s) <= Len(t) /\ s = SubSeq(t, 1, Len(s))

Did(f, event) == \E i \in DOMAIN flow[f].trace : flow[f].trace[i] = event

QueriesBy(f) == { k \in DOMAIN vector_queries : vector_queries[k].by = f }

TotalAdapterCalls ==
    adapter_calls["openai"] + adapter_calls["anthropic"] + adapter_calls["watsonx"]
        + adapter_calls["ollama"]

C16_EmptyRetrievalStillGenerates ==
    \A f \in Calls :
        (Did(f, "docs") /\ flow[f].docs = <<>>) =>
            /\ Did(f, "generate")
            /\ pc[f] # "idle"
            /\ Cardinality(QueriesBy(f)) = 1
            /\ flow[f].messages[2].content.context = <<>>
            /\ flow[f].out.type = "returned" => flow[f].out.value.sources = <<>>
            /\ flow[f].out.type = "raised" =>
                  \/ outcome[f] = [type |-> "raised", exc |-> flow[f].out.exc]
                  \/ Did(f, "result")

\* C16 witness: a run retrieved nothing, called generate and returned a reply
\* without sources.
C16_Witness ==
    \E f \in Calls :
        /\ flow[f].pc = "done"
        /\ Did(f, "docs") /\ flow[f].docs = <<>>
        /\ flow[f].messages[2].content.context = <<>>
        /\ flow[f].out.type = "returned"
        /\ flow[f].out.value.sources = <<>>
        /\ outcome[f].type = "returned"

\* C17: when the generate call of a run has raised, the run holds no reply;
\* once it has ended it has raised the very exception generate raised, and
\* generate was called once for it.
C17_GenerateFailureEndsFlow ==
    \A f \in Calls :
        (Did(f, "generate") /\ pc[f] = "done" /\ outcome[f].type = "raised") =>
            /\ ~Did(f, "result") /\ ~Did(f, "reply")
            /\ flow[f].pc = "compose" => flow[f].out = Nothing
            /\ flow[f].pc = "done" =>
                  flow[f].out = [type |-> "raised", exc |-> outcome[f].exc]
            /\ Cardinality({ i \in DOMAIN flow[f].trace : flow[f].trace[i] = "generate" }) = 1
            /\ TotalAdapterCalls <= Cardinality({ g \in Calls : Did(g, "generate") })

\* C17 witness: a run whose retrieval had returned ended on the upstream error
\* generate raised.
C17_Witness ==
    \E f \in Calls :
        /\ flow[f].pc = "done"
        /\ Did(f, "docs")
        /\ outcome[f].type = "raised"
        /\ outcome[f].exc.kind = "HTTPStatusError"
        /\ flow[f].out = [type |-> "raised", exc |-> outcome[f].exc]

\* The payload is neither a SupportQuery nor a mapping with a string message.
InvalidPayload(payload) ==
    /\ payload.kind # "SupportQuery"
    /\ ~(/\ payload.kind = "dict"
         /\ "message" \in DOMAIN payload.fields
         /\ payload.fields.message # None)

\* C18: a run given an invalid payload has ended by raising the error of the
\* normalization itself (the SupportQuery constructor's ValidationError for a
\* mapping, the TypeError of the ** unpacking for a value that is no mapping),
\* it did nothing after Intake: it has neither queried the vector client nor
\* called generate nor left a call-log row.
C18_InvalidPayloadFailsAtIntake ==
    \A f \in Calls :
        (flow[f].pc # "idle" /\ InvalidPayload(flow[f].payload)) =>
            /\ flow[f].pc = "done"
            /\ flow[f].out.type = "raised"
            /\ flow[f].out.exc.kind =
                  (IF flow[f].payload.kind = "dict" THEN "ValidationError" ELSE "TypeError")
            /\ flow[f].trace = <<>>
            /\ QueriesBy(f) = {}
            /\ pc[f] = "idle"
            /\ log_attempts[f] = <<>>
            /\ RowsBy(f) = {}

\* C18 witness: a run given a dict without message and a run given None both
\* failed at Intake, and nothing was queried, generated or logged.
C18_Witness ==
    \E f, g \in Calls :
        /\ flow[f].pc = "done" /\ flow[g].pc = "done"
        /\ flow[f].payload = [kind |-> "dict", fields |-> [channel |-> "email"]]
        /\ flow[g].payload = [kind |-> "NoneType"]
        /\ flow[f].out.exc.kind = "ValidationError"
        /\ flow[g].out.exc.kind = "TypeError"
        /\ vector_queries = <<>>
        /\ call_log = <<>>
        /\ TotalAdapterCalls = 0

\* A POST /tools/call that names a tool its server does not serve.
UnknownToolCall(f) ==
    /\ flow[f].via \in Servers
    /\ flow[f].tool_name \notin tools_list(flow[f].via)

\* C21: a POST /tools/call whose tool_name the server does not serve is
\* answered 404 at once, and for that request no crew is built, no flow step
\* runs, the vector client is not queried, generate is not called and no
\* call-log row is written.
C21_UnknownToolIsNotFound ==
    \A f \in Calls :
        UnknownToolCall(f) =>
            /\ flow[f].pc = "done"
            /\ flow[f].out.type = "raised"
            /\ flow[f].out.exc.kind = "HTTPException"
            /\ ResponseStatus(flow[f].out) = 404
            /\ flow[f].crew = None
            /\ flow[f].trace = <<>>
            /\ QueriesBy(f) = {}
            /\ pc[f] = "idle"
            /\ RowsBy(f) = {}

\* C21 witness: the MCP host was asked for a tool only the CRM server serves
\* and the CRM server for a tool only the MCP host serves; both answered 404
\* and nothing was retrieved, generated or logged.
C21_Witness ==
    \E f, g \in Calls :
        /\ flow[f].via = "mcp_host" /\ flow[f].tool_name = "crm.lookup_customer"
        /\ flow[g].via = "crm" /\ flow[g].tool_name = "support.answer_ticket"
        /\ ResponseStatus(flow[f].out) = 404
        /\ ResponseStatus(flow[g].out) = 404
        /\ vector_queries = <<>>
        /\ call_log = <<>>
        /\ TotalAdapterCalls = 0

\* What a registry holds when it is well formed: under each of the four vendor
\* names one adapter of that vendor, all made by the same build, and nothing
\* under any other name.
OneAdapterPerName(registry) ==
    /\ DOMAIN registry = ProviderNames
    /\ \A n \in ProviderNames :
          /\ registry[n].name = n
          /\ registry[n].instance = Builds(registry)
    /\ \A n, m \in ProviderNames : n # m => registry[n] # registry[m]

\* C22: over any interleaving of generate calls the registry is built at most
\* once: after every step a registry that exists holds one adapter per vendor
\* name, made by the first build; a registry that existed before the step is
\* the same after it, so a lookup of a name finds the same adapter object every
\* time; and the lookup of an unregistered name finds nothing instead of
\* raising, generate then failing with its own "Unknown provider" error.
C22_RegistryBuiltOnce ==
    [][/\ _PROVIDER_REGISTRY' # Nothing =>
             /\ OneAdapterPerName(_PROVIDER_REGISTRY')
             /\ Builds(_PROVIDER_REGISTRY') = 1
             /\ RegistryGet(_PROVIDER_REGISTRY', "mistral") = Nothing
       /\ _PROVIDER_REGISTRY # Nothing =>
             /\ _PROVIDER_REGISTRY' = _PROVIDER_REGISTRY
             /\ \A n \in ProviderNames \cup {"mistral"} :
                   RegistryGet(_PROVIDER_REGISTRY', n) = RegistryGet(_PROVIDER_REGISTRY, n)
       /\ \A c \in Calls :
             (pc[c] = "idle" /\ pc'[c] # "idle" /\ spec'[c].name \notin ProviderNames) =>
                 /\ pc'[c] = "done"
                 /\ outcome'[c] = [type |-> "raised", exc |-> UnknownProvider(spec'[c].name)]
      ]_vars

\* C22 witness: the registry was built, two calls naming the same vendor have
\* both invoked its adapter, and the registry still holds the objects of the
\* first build.
C22_Witness ==
    /\ _PROVIDER_REGISTRY # Nothing
    /\ Builds(_PROVIDER_REGISTRY) = 1
    /\ \A c \in Calls : pc[c] = "done" /\ spec[c].name = "anthropic"
    /\ adapter_calls["anthropic"] = NCalls

\* The finished call c handed its caller what its own adapter produced.
OwnResult(c) ==
    IF adapter_out[c].type = "raised"
    THEN outcome[c] = adapter_out[c]
    ELSE /\ adapter_out[c].call = c
         /\ outcome[c] = [type |-> "returned", value |-> adapter_out[c]]

\* C23 (as claimed): of the calls that run concurrently, each finished call
\* of a registered provider has handed back its own adapter's result, and has
\* left exactly one call-log row, which carries its own tenant_id and
\* use_case; the log holds no other rows.
C23_ConcurrentCallsIsolated ==
    /\ \A c \in Calls :
          (pc[c] = "done" /\ Registered(c)) =>
              /\ OwnResult(c)
              /\ Cardinality(RowsBy(c)) = 1
              /\ \A i \in RowsBy(c) :
                    /\ call_log[i].row.tenant_id = req[c].tenant_id
                    /\ call_log[i].row.use_case_id = req[c].use_case
    /\ \A i \in DOMAIN call_log : pc[call_log[i].by] = "done"

\* The contents of the messages that have one, first message first.
RECURSIVE ContentsOf(_)
ContentsOf(messages) ==
    IF messages = <<>> THEN <<>>
    ELSE (IF "content" \in DOMAIN Head(messages) THEN <<Head(messages).content>> ELSE <<>>)
             \o ContentsOf(Tail(messages))

\* C24: the message list the support flow built is the one generate received;
\* and every request an adapter sent for a call carries that call's messages
\* in the order generate received them: the list itself for openai, anthropic
\* and ollama, and for watsonx a prompt made of the messages' contents in
\* that order.
C24_MessageOrderPreserved ==
    \A c \in Calls :
        /\ Did(c, "generate") =>
              /\ flow[c].messages = SupportMessages("reset password", flow[c].docs)
              /\ req[c].messages = flow[c].messages
        /\ \A i \in DOMAIN upstream_log[c] :
              IF spec[c].name = "watsonx"
              THEN upstream_log[c][i].payload.input = ContentsOf(req[c].messages)
              ELSE upstream_log[c][i].payload.messages = req[c].messages

\* C24 witness: watsonx was sent a prompt made of "first" then "second" for a
\* call given those two messages in that order with a content-less message
\* between them, and another call carried the support flow's system and user
\* messages to the vendor.
C24_Witness ==
    \E c, f \in Calls :
        /\ pc[c] = "done" /\ pc[f] = "done"
        /\ spec[c].name = "watsonx"
        /\ Len(req[c].messages) = 3
        /\ Len(upstream_log[c]) = 1
        /\ upstream_log[c][1].payload.input = <<"first", "second">>
        /\ Did(f, "generate")
        /\ Len(upstream_log[f]) = 1
        /\ Len(upstream_log[f][1].payload.input) = 2
        /\ upstream_log[f][1].payload.input[1] = flow[f].messages[1].content

\* C25 (as claimed): every call-log row carries the tenant_id and use_case
\* of the call that wrote it and the provider name and model resolved for that
\* call, with token counts of zero; and an "error" row carries the class name
\* and the message of the error that call's adapter raised.
C25_RowDescribesItsCall ==
    \A i \in DOMAIN call_log :
        LET c == call_log[i].by
            row == call_log[i].row
        IN /\ row.tenant_id = req[c].tenant_id
           /\ row.use_case_id = req[c].use_case
           /\ row.provider_name = spec[c].name
           /\ row.model_name = spec[c].model
           /\ row.tokens_input = 0 /\ row.tokens_output = 0
           /\ row.status = "error" =>
                 /\ adapter_out[c].type = "raised"
                 /\ row.error_type = adapter_out[c].exc.kind
                 /\ row.error_message = adapter_out[c].exc.msg

\* A POST /support/query that carries neither X-Tenant-ID nor Authorization.
Unauthenticated(f) ==
    /\ flow[f].via = "support_query"
    /\ flow[f].headers = [X_Tenant_ID |-> None, Authorization |-> NoAuthorization]

\* C26 (as claimed): a POST /support/query without authentication headers is
\* answered 401, and the support flow is not run for it.
C26_UnauthenticatedIs401 ==
    \A f \in Calls :
        Unauthenticated(f) =>
            /\ flow[f].pc = "done"
            /\ ResponseStatus(flow[f].out) = 401
            /\ flow[f].trace = <<>>
            /\ pc[f] = "idle"

\* The adapter of call c returned a lazy sequence.
AdapterReturnedStream(c) == adapter_out[c].type = "stream"

\* The rows of call c are one row, of status "success".
OneSuccessRow(c) ==
    /\ Cardinality(RowsBy(c)) = 1
    /\ \A i \in RowsBy(c) : call_log[i].row.status = "success"

\* C27 (as claimed): a streaming call whose adapter returned the lazy
\* sequence has, once generate has finished, exactly one call-log row, of
\* status "success"; the row is there before the first fragment is asked for,
\* and it is still the call's only row whatever happens to the stream.
C27_StreamLoggedOnceAsSuccess ==
    \A c \in Calls :
        /\ (pc[c] = "done" /\ AdapterReturnedStream(c)) => OneSuccessRow(c)
        /\ stream[c].phase # "none" => OneSuccessRow(c)

\* C28 (as claimed): a streaming call has sent at most one request upstream,
\* and none as long as no fragment of its sequence has been asked for.
C28_OneLazyRequestPerStream ==
    \A c \in Calls :
        (pc[c] # "idle" /\ req[c].stream) =>
            /\ http_requests[c] <= 1
            /\ stream[c].phase \in {"none", "unstarted"} => http_requests[c] = 0

\* A POST /tools/call of the MCP host that names a tool GET /tools lists.
ListedToolCall(f) ==
    /\ flow[f].via = "mcp_host"
    /\ flow[f].tool_name \in tools_list("mcp_host")

\* C29 (as claimed): a call of a tool the MCP host lists has reached a crew
\* registered for its use case; it is not answered with not-found, and not
\* with the error of a use case that has no crew builder.
C29_ListedToolsDispatchable ==
    \A f \in Calls :
        ListedToolCall(f) =>
            /\ flow[f].crew \in CREW_BUILDERS
            /\ flow[f].out.type = "raised" =>
                  /\ ResponseStatus(flow[f].out) # 404
                  /\ flow[f].out.exc # get_crew("legal").exc

\* The vector query the retrieval tool sent in tool call j.
QueryOf(j) ==
    vector_queries[Cardinality({ k \in 1..j : tool_calls[k].queried })]

\* C30: every call ingest_documents makes on its vector client names the same
\* index as the query the retrieval tool sends for the same (tenant_id,
\* use_case, source); a run given documents creates the index and then
\* upserts exactly those documents into it, and a run given no documents
\* creates the index and upserts nothing. (A run that cannot build its
\* vector client, no store being configured, makes no call at all.)
C30_IngestionAndRetrievalAgree ==
    \A i \in DOMAIN tool_calls :
        tool_calls[i].tool = "ingest" =>
            LET run == tool_calls[i]
            IN /\ \A j \in DOMAIN tool_calls :
                     (tool_calls[j].queried /\ tool_calls[j].args = run.args) =>
                         \A k \in DOMAIN run.ops :
                             run.ops[k].index_name = QueryOf(j).index_name
               /\ run.out.type = "raised" => run.ops = <<>>
               /\ run.out.type = "returned" =>
                     /\ Len(run.ops) = (IF run.documents = <<>> THEN 1 ELSE 2)
                     /\ run.ops[1].op = "create_index"
                     /\ Len(run.ops) = 2 =>
                           /\ run.ops[2].op = "upsert"
                           /\ run.ops[2].docs = run.documents
                           /\ run.ops[2].index_name = run.ops[1].index_name

\* C30 witness: documents were ingested for (tenant_a, support, kb) and the
\* retrieval tool then queried that triple; the upsert and the query name the
\* same index.
C30_Witness ==
    /\ Len(tool_calls) = 2
    /\ tool_calls[1].tool = "ingest"
    /\ tool_calls[1].args = [tenant_id |-> "tenant_a", use_case |-> "support", source |-> "kb"]
    /\ Len(tool_calls[1].ops) = 2
    /\ tool_calls[2].tool = "vector_search" /\ tool_calls[2].queried
    /\ tool_calls[2].args = tool_calls[1].args
    /\ vector_queries[1].index_name = tool_calls[1].ops[2].index_name

====
